---------------------------- MODULE Spec2Model ----------------------------
(***************************************************************************)
(* Model of the glsim mockup server (express + sharp).                     *)
(*                                                                         *)
(* Three source variants of the server live in the repository:            *)
(*   v4.1 "per-product repositioning"   src/unnamed/part_000               *)
(*   v2.2 "per-product sim support"     src/app.js, lines 1-407            *)
(*   v2.3 "auto-resize fix"             src/app.js, lines 409-738          *)
(* The request handlers and the generation pipeline modelled here are the  *)
(* ones of v4.1, the only variant that has the placement registry.         *)
(*                                                                         *)
(* JavaScript strings are modelled as sequences of one-character strings,  *)
(* with 0-based indices in the operators that mirror String.prototype.     *)
(***************************************************************************)
EXTENDS Integers, Sequences, FiniteSets, TLC

(***************************************************************************)
(* String.prototype helpers                                                *)
(***************************************************************************)
SetMin(S) == CHOOSE m \in S : \A k \in S : m <= k

UpperAlpha == << "A","B","C","D","E","F","G","H","I","J","K","L","M",
                 "N","O","P","Q","R","S","T","U","V","W","X","Y","Z" >>
LowerAlpha == << "a","b","c","d","e","f","g","h","i","j","k","l","m",
                 "n","o","p","q","r","s","t","u","v","w","x","y","z" >>

ToLowerChar(c) ==
  IF \E i \in 1..Len(UpperAlpha) : UpperAlpha[i] = c
    THEN LowerAlpha[CHOOSE i \in 1..Len(UpperAlpha) : UpperAlpha[i] = c]
    ELSE c

\* s.toLowerCase()
toLowerCase(s) == [i \in 1..Len(s) |-> ToLowerChar(s[i])]

\* s.startsWith(p)
startsWith(s, p) == Len(p) <= Len(s) /\ SubSeq(s, 1, Len(p)) = p

\* s.endsWith(p)
endsWith(s, p) == Len(p) <= Len(s) /\ SubSeq(s, Len(s) - Len(p) + 1, Len(s)) = p

\* positions (0-based) at which p occurs in s
Occurrences(s, p) ==
  { i \in 0..(Len(s) - Len(p)) : SubSeq(s, i + 1, i + Len(p)) = p }

\* s.includes(p)
includes(s, p) == Occurrences(s, p) # {}

\* s.indexOf(c, from) for a one-character c: 0-based, -1 when absent
indexOf(s, c, from) ==
  LET hits == { i \in 0..(Len(s) - 1) : i >= from /\ s[i + 1] = c }
  IN  IF hits = {} THEN -1 ELSE SetMin(hits)

\* relative index of slice(): negative counts from the end, clamped
SliceIndex(s, k) ==
  IF k < 0 THEN (IF Len(s) + k < 0 THEN 0 ELSE Len(s) + k)
           ELSE (IF k > Len(s) THEN Len(s) ELSE k)

\* s.slice(a, b)
slice(s, a, b) == SubSeq(s, SliceIndex(s, a) + 1, SliceIndex(s, b))

\* s.slice(a)
sliceFrom(s, a) == SubSeq(s, SliceIndex(s, a) + 1, Len(s))

\* s.replace(pat, rep) with a string pattern: first occurrence only
replace(s, pat, rep) ==
  IF Occurrences(s, pat) = {} THEN s
  ELSE LET i == SetMin(Occurrences(s, pat))
       IN  SubSeq(s, 1, i) \o rep \o SubSeq(s, i + Len(pat) + 1, Len(s))

Hyphen == << "-" >>
DotJpg == << ".", "j", "p", "g" >>
DotPng == << ".", "p", "n", "g" >>

\* JPGExt(file), part_000 line 14
JPGExt(file) == file \o DotJpg

(***************************************************************************)
(* Product classifier                                                      *)
(***************************************************************************)
PRODUCT_PREFIXES ==
  << <<"h","o","o","d","i","e">>,
     <<"h","o","o","d","i","e","b","a","c","k">>,
     <<"y","t","h","h","o","o","d","i","e">>,
     <<"y","t","h","h","o","o","d","i","e","b","a","c","k">>,
     <<"t","o","d","d","l","e","r","h","o","o","d","i","e">>,
     <<"t","o","d","d","l","e","r","h","o","o","d","i","e","b","a","c","k">>,
     <<"j","h","a","0","0","9">>,
     <<"j","h","a","0","0","9","b","a","c","k">>,
     <<"c","o","a","c","h">>,
     <<"c","o","a","c","h","b","a","c","k">>,
     <<"w","o","r","k","s","h","i","r","t">>,
     <<"w","o","r","k","s","h","i","r","t","b","a","c","k">>,
     <<"s","w","e","a","t">>,
     <<"s","w","e","a","t","b","a","c","k">>,
     <<"y","o","u","t","h","s","w","e","a","t">>,
     <<"y","o","u","t","h","s","w","e","a","t","b","a","c","k">>,
     <<"t","o","d","d","l","e","r","s","w","e","a","t">>,
     <<"t","o","d","d","l","e","r","s","w","e","a","t","b","a","c","k">>,
     <<"o","n","e","s","i","e">>,
     <<"l","s","t","e","e">>,
     <<"l","s","t","e","e","b","a","c","k">>,
     <<"l","s","t","e","e","h","o","o","d","i","e">>,
     <<"l","s","t","e","e","h","o","o","d","i","e","b","a","c","k">>,
     <<"p","e","r","f","o","r","m","a","n","c","e","l","s","t","e","e">>,
     <<"p","e","r","f","o","r","m","a","n","c","e","l","s","t","e","e","b","a","c","k">>,
     <<"t","a","n","k">>,
     <<"t","a","n","k","b","a","c","k">>,
     <<"s","l","e","e","v","e","l","e","s","s">>,
     <<"s","l","e","e","v","e","l","e","s","s","b","a","c","k">>,
     <<"r","a","g","l","a","n">>,
     <<"r","a","g","l","a","n","b","a","c","k">>,
     <<"r","i","n","g">>,
     <<"r","i","n","g","b","a","c","k">>,
     <<"n","l","6","7","3","3">>,
     <<"n","l","3","9","0","0">>,
     <<"n","l","3","9","0","0","b","a","c","k">>,
     <<"6","4","v","0","0","l">>,
     <<"6","4","v","0","0","l","b","a","c","k">>,
     <<"y","o","u","t","h","t","e","e">>,
     <<"y","o","u","t","h","t","e","e","b","a","c","k">>,
     <<"t","o","d","d","l","e","r","t","e","e">>,
     <<"t","o","d","d","l","e","r","t","e","e","b","a","c","k">>,
     <<"l","u","n","c","h","b","o","x">>,
     <<"t","o","t","e">>,
     <<"s","p","o","r","t","b","a","g">>,
     <<"5","3","0","0">>,
     <<"n","l","t","b","t","e","e">>,
     <<"t","e","e">>,
     <<"t","e","e","b","a","c","k">>,
     <<"t","d","1","0","0","0">>,
     <<"t","r","u","c","k","e","r">>,
     <<"o","t","t","o","w","a","s","h","e","d","6","p">>,
     <<"g","5","0","0","0","r","e","a","l">>,
     <<"g","5","0","0","0","r","e","a","l","b">>,
     <<"g","5","0","0","0","r","e","a","l","c">> >>

PRODUCT_TO_PLACEMENT ==
  { <<<<"t","e","e">>, "tee">>,
    <<<<"t","e","e","b","a","c","k">>, "tee">>,
    <<<<"n","l","t","b","t","e","e">>, "tee">>,
    <<<<"5","3","0","0">>, "tee">>,
    <<<<"l","s","t","e","e">>, "tee">>,
    <<<<"l","s","t","e","e","b","a","c","k">>, "tee">>,
    <<<<"p","e","r","f","o","r","m","a","n","c","e","l","s","t","e","e">>, "tee">>,
    <<<<"p","e","r","f","o","r","m","a","n","c","e","l","s","t","e","e","b","a","c","k">>, "tee">>,
    <<<<"t","a","n","k">>, "tee">>,
    <<<<"t","a","n","k","b","a","c","k">>, "tee">>,
    <<<<"s","l","e","e","v","e","l","e","s","s">>, "tee">>,
    <<<<"s","l","e","e","v","e","l","e","s","s","b","a","c","k">>, "tee">>,
    <<<<"r","a","g","l","a","n">>, "tee">>,
    <<<<"r","a","g","l","a","n","b","a","c","k">>, "tee">>,
    <<<<"r","i","n","g">>, "tee">>,
    <<<<"r","i","n","g","b","a","c","k">>, "tee">>,
    <<<<"n","l","6","7","3","3">>, "tee">>,
    <<<<"n","l","3","9","0","0">>, "tee">>,
    <<<<"n","l","3","9","0","0","b","a","c","k">>, "tee">>,
    <<<<"6","4","v","0","0","l">>, "tee">>,
    <<<<"6","4","v","0","0","l","b","a","c","k">>, "tee">>,
    <<<<"y","o","u","t","h","t","e","e">>, "tee">>,
    <<<<"y","o","u","t","h","t","e","e","b","a","c","k">>, "tee">>,
    <<<<"t","o","d","d","l","e","r","t","e","e">>, "tee">>,
    <<<<"t","o","d","d","l","e","r","t","e","e","b","a","c","k">>, "tee">>,
    <<<<"t","d","1","0","0","0">>, "tee">>,
    <<<<"g","5","0","0","0","r","e","a","l">>, "tee">>,
    <<<<"g","5","0","0","0","r","e","a","l","b">>, "tee">>,
    <<<<"g","5","0","0","0","r","e","a","l","c">>, "tee">>,
    <<<<"t","o","t","e">>, "tee">>,
    <<<<"h","o","o","d","i","e">>, "hoodie">>,
    <<<<"h","o","o","d","i","e","b","a","c","k">>, "hoodie">>,
    <<<<"j","h","a","0","0","9">>, "hoodie">>,
    <<<<"j","h","a","0","0","9","b","a","c","k">>, "hoodie">>,
    <<<<"y","t","h","h","o","o","d","i","e">>, "hoodie">>,
    <<<<"y","t","h","h","o","o","d","i","e","b","a","c","k">>, "hoodie">>,
    <<<<"t","o","d","d","l","e","r","h","o","o","d","i","e">>, "hoodie">>,
    <<<<"t","o","d","d","l","e","r","h","o","o","d","i","e","b","a","c","k">>, "hoodie">>,
    <<<<"l","s","t","e","e","h","o","o","d","i","e">>, "hoodie">>,
    <<<<"l","s","t","e","e","h","o","o","d","i","e","b","a","c","k">>, "hoodie">>,
    <<<<"s","w","e","a","t">>, "sweat">>,
    <<<<"s","w","e","a","t","b","a","c","k">>, "sweat">>,
    <<<<"y","o","u","t","h","s","w","e","a","t">>, "sweat">>,
    <<<<"y","o","u","t","h","s","w","e","a","t","b","a","c","k">>, "sweat">>,
    <<<<"t","o","d","d","l","e","r","s","w","e","a","t">>, "sweat">>,
    <<<<"t","o","d","d","l","e","r","s","w","e","a","t","b","a","c","k">>, "sweat">>,
    <<<<"c","o","a","c","h">>, "coach">>,
    <<<<"c","o","a","c","h","b","a","c","k">>, "coach">>,
    <<<<"w","o","r","k","s","h","i","r","t">>, "coach">>,
    <<<<"w","o","r","k","s","h","i","r","t","b","a","c","k">>, "coach">>,
    <<<<"o","n","e","s","i","e">>, "onesie">>,
    <<<<"l","u","n","c","h","b","o","x">>, "lunchbox">>,
    <<<<"s","p","o","r","t","b","a","g">>, "sportbag">>,
    <<<<"t","r","u","c","k","e","r">>, "hat">>,
    <<<<"o","t","t","o","w","a","s","h","e","d","6","p">>, "hat">> }

\* JavaScript null (also falsy, like the empty string)
Null == << >>

\* insertion of x into a sequence already sorted by descending length,
\* after the elements that are at least as long (Array.prototype.sort is stable)
RECURSIVE InsertByLength(_, _)
InsertByLength(srt, x) ==
  IF srt = << >> THEN << x >>
  ELSE IF Len(Head(srt)) >= Len(x)
         THEN << Head(srt) >> \o InsertByLength(Tail(srt), x)
         ELSE << x >> \o srt

RECURSIVE SortByLengthDesc(_)
SortByLengthDesc(seq) ==
  IF seq = << >> THEN << >>
  ELSE InsertByLength(SortByLengthDesc(SubSeq(seq, 1, Len(seq) - 1)), seq[Len(seq)])

\* PRODUCT_PREFIXES.slice().sort((a, b) => b.length - a.length)
sorted == SortByLengthDesc(PRODUCT_PREFIXES)

\* variant of the loop test that forgets the separator: lower.startsWith(prefix)
PrefixMatches_noSeparator(lower, prefix) ==
  startsWith(lower, prefix) \/ lower = prefix

\* variant of the loop test without the equality: lower.startsWith(prefix + "-")
PrefixMatches_noExact(lower, prefix) ==
  startsWith(lower, prefix \o Hyphen)

\* the test of the loop body: lower.startsWith(prefix + "-") || lower === prefix
PrefixMatches(lower, prefix) ==
  startsWith(lower, prefix \o Hyphen) \/ lower = prefix

getProductFromTemplate(templateName) ==
  LET lower == toLowerCase(templateName)
      hits  == { i \in 1..Len(sorted) : PrefixMatches(lower, sorted[i]) }
  IN  IF hits = {} THEN Null ELSE sorted[SetMin(hits)]

(***************************************************************************)
(* The copies of the classifier in app.js (v2.2 and v2.3)                  *)
(***************************************************************************)
PRODUCT_PREFIXES_v22 ==
  <<
    << "h","o","o","d","i","e" >>,
    << "h","o","o","d","i","e","b","a","c","k" >>,
    << "y","t","h","h","o","o","d","i","e" >>,
    << "y","t","h","h","o","o","d","i","e","b","a","c","k" >>,
    << "t","o","d","d","l","e","r","h","o","o","d","i","e" >>,
    << "t","o","d","d","l","e","r","h","o","o","d","i","e","b","a","c","k" >>,
    << "j","h","a","0","0","9" >>,
    << "j","h","a","0","0","9","b","a","c","k" >>,
    << "c","o","a","c","h" >>,
    << "c","o","a","c","h","b","a","c","k" >>,
    << "w","o","r","k","s","h","i","r","t" >>,
    << "w","o","r","k","s","h","i","r","t","b","a","c","k" >>,
    << "s","w","e","a","t" >>,
    << "s","w","e","a","t","b","a","c","k" >>,
    << "y","o","u","t","h","s","w","e","a","t" >>,
    << "y","o","u","t","h","s","w","e","a","t","b","a","c","k" >>,
    << "t","o","d","d","l","e","r","s","w","e","a","t" >>,
    << "t","o","d","d","l","e","r","s","w","e","a","t","b","a","c","k" >>,
    << "o","n","e","s","i","e" >>,
    << "l","s","t","e","e" >>,
    << "l","s","t","e","e","b","a","c","k" >>,
    << "l","s","t","e","e","h","o","o","d","i","e" >>,
    << "l","s","t","e","e","h","o","o","d","i","e","b","a","c","k" >>,
    << "p","e","r","f","o","r","m","a","n","c","e","l","s","t","e","e" >>,
    << "p","e","r","f","o","r","m","a","n","c","e","l","s","t","e","e","b","a","c","k" >>,
    << "t","a","n","k" >>,
    << "t","a","n","k","b","a","c","k" >>,
    << "s","l","e","e","v","e","l","e","s","s" >>,
    << "s","l","e","e","v","e","l","e","s","s","b","a","c","k" >>,
    << "r","a","g","l","a","n" >>,
    << "r","a","g","l","a","n","b","a","c","k" >>,
    << "r","i","n","g" >>,
    << "r","i","n","g","b","a","c","k" >>,
    << "n","l","6","7","3","3" >>,
    << "n","l","3","9","0","0" >>,
    << "n","l","3","9","0","0","b","a","c","k" >>,
    << "6","4","v","0","0","l" >>,
    << "6","4","v","0","0","l","b","a","c","k" >>,
    << "y","o","u","t","h","t","e","e" >>,
    << "y","o","u","t","h","t","e","e","b","a","c","k" >>,
    << "t","o","d","d","l","e","r","t","e","e" >>,
    << "t","o","d","d","l","e","r","t","e","e","b","a","c","k" >>,
    << "l","u","n","c","h","b","o","x" >>,
    << "t","o","t","e" >>,
    << "s","p","o","r","t","b","a","g" >>,
    << "5","3","0","0" >>,
    << "n","l","t","b","t","e","e" >>,
    << "t","e","e" >>,
    << "t","e","e","b","a","c","k" >>,
    << "t","d","1","0","0","0" >>,
    << "t","r","u","c","k","e","r" >>,
    << "o","t","t","o","w","a","s","h","e","d","6","p" >>,
    << "g","5","0","0","0","r","e","a","l" >>,
    << "g","5","0","0","0","r","e","a","l","b" >>,
    << "g","5","0","0","0","r","e","a","l","c" >>
  >>

sorted_v22 == SortByLengthDesc(PRODUCT_PREFIXES_v22)

getProductFromTemplate_v22(templateName) ==
  LET lower == toLowerCase(templateName)
      hits  == { i \in 1..Len(sorted_v22) :
                   startsWith(lower, sorted_v22[i] \o Hyphen) \/ lower = sorted_v22[i] }
  IN  IF hits = {} THEN Null ELSE sorted_v22[SetMin(hits)]

PRODUCT_PREFIXES_v23 ==
  <<
    << "h","o","o","d","i","e" >>,
    << "h","o","o","d","i","e","b","a","c","k" >>,
    << "y","t","h","h","o","o","d","i","e" >>,
    << "y","t","h","h","o","o","d","i","e","b","a","c","k" >>,
    << "t","o","d","d","l","e","r","h","o","o","d","i","e" >>,
    << "t","o","d","d","l","e","r","h","o","o","d","i","e","b","a","c","k" >>,
    << "j","h","a","0","0","9" >>,
    << "j","h","a","0","0","9","b","a","c","k" >>,
    << "c","o","a","c","h" >>,
    << "c","o","a","c","h","b","a","c","k" >>,
    << "w","o","r","k","s","h","i","r","t" >>,
    << "w","o","r","k","s","h","i","r","t","b","a","c","k" >>,
    << "s","w","e","a","t" >>,
    << "s","w","e","a","t","b","a","c","k" >>,
    << "y","o","u","t","h","s","w","e","a","t" >>,
    << "y","o","u","t","h","s","w","e","a","t","b","a","c","k" >>,
    << "t","o","d","d","l","e","r","s","w","e","a","t" >>,
    << "t","o","d","d","l","e","r","s","w","e","a","t","b","a","c","k" >>,
    << "o","n","e","s","i","e" >>,
    << "l","s","t","e","e" >>,
    << "l","s","t","e","e","b","a","c","k" >>,
    << "l","s","t","e","e","h","o","o","d","i","e" >>,
    << "l","s","t","e","e","h","o","o","d","i","e","b","a","c","k" >>,
    << "p","e","r","f","o","r","m","a","n","c","e","l","s","t","e","e" >>,
    << "p","e","r","f","o","r","m","a","n","c","e","l","s","t","e","e","b","a","c","k" >>,
    << "t","a","n","k" >>,
    << "t","a","n","k","b","a","c","k" >>,
    << "s","l","e","e","v","e","l","e","s","s" >>,
    << "s","l","e","e","v","e","l","e","s","s","b","a","c","k" >>,
    << "r","a","g","l","a","n" >>,
    << "r","a","g","l","a","n","b","a","c","k" >>,
    << "r","i","n","g" >>,
    << "r","i","n","g","b","a","c","k" >>,
    << "n","l","6","7","3","3" >>,
    << "n","l","3","9","0","0" >>,
    << "n","l","3","9","0","0","b","a","c","k" >>,
    << "6","4","v","0","0","l" >>,
    << "6","4","v","0","0","l","b","a","c","k" >>,
    << "y","o","u","t","h","t","e","e" >>,
    << "y","o","u","t","h","t","e","e","b","a","c","k" >>,
    << "t","o","d","d","l","e","r","t","e","e" >>,
    << "t","o","d","d","l","e","r","t","e","e","b","a","c","k" >>,
    << "l","u","n","c","h","b","o","x" >>,
    << "t","o","t","e" >>,
    << "s","p","o","r","t","b","a","g" >>,
    << "5","3","0","0" >>,
    << "n","l","t","b","t","e","e" >>,
    << "t","e","e" >>,
    << "t","e","e","b","a","c","k" >>,
    << "t","d","1","0","0","0" >>,
    << "t","r","u","c","k","e","r" >>,
    << "o","t","t","o","w","a","s","h","e","d","6","p" >>,
    << "g","5","0","0","0","r","e","a","l" >>,
    << "g","5","0","0","0","r","e","a","l","b" >>,
    << "g","5","0","0","0","r","e","a","l","c" >>
  >>

sorted_v23 == SortByLengthDesc(PRODUCT_PREFIXES_v23)

getProductFromTemplate_v23(templateName) ==
  LET lower == toLowerCase(templateName)
      hits  == { i \in 1..Len(sorted_v23) :
                   startsWith(lower, sorted_v23[i] \o Hyphen) \/ lower = sorted_v23[i] }
  IN  IF hits = {} THEN Null ELSE sorted_v23[SetMin(hits)]

\* variant of the lookup whose default for an unclassified template is "hoodie"
PlacementKey_defaultHoodie(product) ==
  IF product = Null THEN "hoodie"
  ELSE IF \E e \in PRODUCT_TO_PLACEMENT : e[1] = product
         THEN (CHOOSE e \in PRODUCT_TO_PLACEMENT : e[1] = product)[2]
         ELSE "hoodie"

\* variant of the lookup without its default: PRODUCT_TO_PLACEMENT[product]
PlacementKey_noDefault(product) ==
  IF product = Null THEN "tee"
  ELSE IF \E e \in PRODUCT_TO_PLACEMENT : e[1] = product
         THEN (CHOOSE e \in PRODUCT_TO_PLACEMENT : e[1] = product)[2]
         ELSE "undefined"

\* product ? (PRODUCT_TO_PLACEMENT[product] || "tee") : "tee"
PlacementKey(product) ==
  IF product = Null THEN "tee"
  ELSE IF \E e \in PRODUCT_TO_PLACEMENT : e[1] = product
         THEN (CHOOSE e \in PRODUCT_TO_PLACEMENT : e[1] = product)[2]
         ELSE "tee"

(***************************************************************************)
(* Placement registry.  The fractions of the source are written in         *)
(* thousandths: w: 0.445 is w |-> 445 over FracDen.                        *)
(***************************************************************************)
FracDen == 1000

\* variant of the registry with the hoodie width typed as a percentage, w: 50
PL_hoodiePercent ==
  [ tee      |-> [ r |-> FALSE ],
    hoodie   |-> [ r |-> TRUE, w |-> 50 * FracDen, y |-> 240, h |-> 380 ],
    sweat    |-> [ r |-> TRUE, w |-> 445, y |-> 230, h |-> 520 ],
    coach    |-> [ r |-> TRUE, w |-> 190, y |-> 280, h |-> 156, lc |-> TRUE, x |-> 550 ],
    onesie   |-> [ r |-> TRUE, w |-> 400, y |-> 170, h |-> 480 ],
    lunchbox |-> [ r |-> TRUE, w |-> 750, y |-> 210, h |-> 430 ],
    sportbag |-> [ r |-> TRUE, w |-> 550, y |-> 290, h |-> 480 ],
    hat      |-> [ r |-> TRUE, w |-> 350, y |-> 220, h |-> 300 ] ]

PL ==
  [ tee      |-> [ r |-> FALSE ],
    hoodie   |-> [ r |-> TRUE, w |-> 500, y |-> 240, h |-> 380 ],
    sweat    |-> [ r |-> TRUE, w |-> 445, y |-> 230, h |-> 520 ],
    coach    |-> [ r |-> TRUE, w |-> 190, y |-> 280, h |-> 156, lc |-> TRUE, x |-> 550 ],
    onesie   |-> [ r |-> TRUE, w |-> 400, y |-> 170, h |-> 480 ],
    lunchbox |-> [ r |-> TRUE, w |-> 750, y |-> 210, h |-> 430 ],
    sportbag |-> [ r |-> TRUE, w |-> 550, y |-> 290, h |-> 480 ],
    hat      |-> [ r |-> TRUE, w |-> 350, y |-> 220, h |-> 300 ] ]

CW == 826
CH == 1011

\* the branch condition !cfg || !cfg.r is false: the entry exists and repositions
Repositions(pk) == pk \in DOMAIN PL /\ PL[pk].r

\* cfg.lc, undefined (falsy) when the entry has no such field
IsFixedLeft(cfg) == "lc" \in DOMAIN cfg /\ cfg.lc

\* variant that truncates: Math.floor(n / d)
MathRound_trunc(n, d) == n \div d

\* Math.round(n / d) for an exactly computed quotient: floor(n/d + 1/2)
MathRound(n, d) == (2 * n + d) \div (2 * d)

\* variant that truncates: Math.floor(d * (n / m))
ScaledRound_floor(d, n, m) == { (d * n) \div m }

\* the binary exponent of the positive quotient n/m: 2^k <= n/m < 2^(k+1)
RECURSIVE ExponentUp(_, _, _)
ExponentUp(n, m, k) == IF m * 2^(k + 1) <= n THEN ExponentUp(n, m, k + 1) ELSE k

RECURSIVE ExponentDown(_, _, _)
ExponentDown(n, m, j) == IF n * 2^j >= m THEN -j ELSE ExponentDown(n, m, j + 1)

Exponent(n, m) == IF n >= m THEN ExponentUp(n, m, 0) ELSE ExponentDown(n, m, 1)

\* 2^s modulo m
RECURSIVE Pow2Mod(_, _)
Pow2Mod(s, m) == IF s = 0 THEN 1 % m ELSE (2 * Pow2Mod(s - 1, m)) % m

\* d * (n / m) is exactly halfway between two integers
IsTie(d, n, m) == (2 * d * n) % m = 0 /\ ((2 * d * n) \div m) % 2 = 1

\* At a tie, the double n/m (53-bit significand, round to nearest) is below
\* the exact quotient by r/m units in its last place, r the remainder of
\* n * 2^(52 - exponent) by m, when r is positive and under m/2.  The product
\* with d is then rounded to a double again, and falls short of the tie only
\* if that deficit, d * r/m scaled to the last place of the product, is more
\* than half a unit.
TieFallsShort(d, n, m) ==
  LET kq == Exponent(n, m)
      kp == Exponent(d * n, m) - (IF 2 * d * n = m THEN 1 ELSE 0)
      r  == ((n % m) * Pow2Mod(52 - kq, m)) % m
  IN  r > 0 /\ 2 * r < m /\ 2 * d * r > m * 2^(kp - kq)

\* Math.round(d * (n / m)) in double arithmetic: the quotient n/m is rounded
\* before the multiplication.  Away from a tie the error is far below the
\* distance to the next half-integer; at a tie Math.round goes up unless the
\* product fell short of it.
ScaledRound(d, n, m) ==
  IF IsTie(d, n, m)
    THEN IF TieFallsShort(d, n, m) THEN { (d * n) \div m }
                                   ELSE { (d * n) \div m + 1 }
    ELSE { MathRound(d * n, m) }

maxW(cfg) == MathRound(CW * cfg.w, FracDen)
maxH(cfg) == MathRound(CH * cfg.h, FracDen)

\* variant that takes the larger ratio: Math.max(maxW / dw, maxH / dh)
sc_max(cfg, dw, dh) ==
  IF maxW(cfg) * dh <= maxH(cfg) * dw THEN << maxH(cfg), dh >>
                                      ELSE << maxW(cfg), dw >>

\* variant that fits the width only: sc = maxW / dw
sc_widthOnly(cfg, dw, dh) == << maxW(cfg), dw >>

\* sc = Math.min(maxW / dw, maxH / dh), as the fraction << numerator, denominator >>
sc(cfg, dw, dh) ==
  IF maxW(cfg) * dh <= maxH(cfg) * dw THEN << maxW(cfg), dw >>
                                      ELSE << maxH(cfg), dh >>

\* tw = Math.round(dw * sc), th = Math.round(dh * sc)
tw(cfg, dw, dh) == ScaledRound(dw, sc(cfg, dw, dh)[1], sc(cfg, dw, dh)[2])
th(cfg, dw, dh) == ScaledRound(dh, sc(cfg, dw, dh)[1], sc(cfg, dw, dh)[2])

\* top = Math.round(CH * cfg.y)
top(cfg) == MathRound(CH * cfg.y, FracDen)

\* variant of the centring that adds the width: Math.round((CW + tw) / 2)
left_plusWidth(cfg, w) ==
  IF IsFixedLeft(cfg) THEN MathRound(CW * cfg.x, FracDen)
                      ELSE MathRound(CW + w, 2)

\* left = cfg.lc ? Math.round(CW * cfg.x) : Math.round((CW - tw) / 2)
left(cfg, w) ==
  IF IsFixedLeft(cfg) THEN MathRound(CW * cfg.x, FracDen)
                      ELSE MathRound(CW - w, 2)

\* every geometry the repositioning branch can compute for a trimmed design
\* of dw x dh pixels
Placements(cfg, dw, dh) ==
  { [ tw |-> w, th |-> h, top |-> top(cfg), left |-> left(cfg, w) ] :
      w \in tw(cfg, dw, dh), h \in th(cfg, dw, dh) }

(***************************************************************************)
(* Request identifier parsing                                              *)
(***************************************************************************)
\* generateImage: sep = file.indexOf("-", file.indexOf("-") + 1)
sep(file) == indexOf(file, "-", indexOf(file, "-", 0) + 1)

\* tplName = file.slice(0, sep)
tplName(file) == slice(file, 0, sep(file))

\* tplFile = JPGExt(file.slice(0, sep))
tplFile(file) == JPGExt(slice(file, 0, sep(file)))

\* dNum = file.slice(sep + 1).replace(".jpg", "")
dNum(file) == replace(sliceFrom(file, sep(file) + 1), DotJpg, << >>)

\* gFile = `${dNum}.png`
gFile(file) == dNum(file) \o DotPng

\* the /bust handler's own copy of the design-number expression
bustDNum(fn) ==
  replace(sliceFrom(fn, indexOf(fn, "-", indexOf(fn, "-", 0) + 1) + 1), DotJpg, << >>)

(***************************************************************************)
(* State                                                                   *)
(***************************************************************************)
VARIABLES
  fnTask,    \* pure-function harness: which function is applied
  fnArg,     \* pure-function harness: its argument
  fnRes,     \* pure-function harness: its result
  scenario,  \* the request strings clients send in this run
  design,    \* design/ directory: file name -> file state
  output,    \* output/ directory: file name -> file state
  remote,    \* version of the assets currently published upstream
  file,      \* per connection: req.params.file
  hpc,       \* per connection: position of the route handler
  gpc,       \* per connection: position of generateImage
  wt,        \* per connection: state of the withTimeout promise
  resp,      \* per connection: what was sent to the client
  buf,       \* per connection: buf.length inside downloadImage, kept when rejected
  comp,      \* per connection: composite prepared by generateImage
  ret        \* per connection: value generateImage returned

fnVars   == << fnTask, fnArg, fnRes >>
httpVars == << scenario, design, output, remote, file, hpc, gpc, wt, resp,
               buf, comp, ret >>
vars     == << fnTask, fnArg, fnRes, scenario, design, output, remote, file,
               hpc, gpc, wt, resp, buf, comp, ret >>

(***************************************************************************)
(* Bounds and environment                                                  *)
(***************************************************************************)
\* number of times the upstream design assets are (re)published
MaxVersion == 2

\* connections handled concurrently
Conns == { "c1", "c2" }

\* variant of the threshold that lets a 4000-byte body through
MinDesignBytes_low == 7000 - 3000

\* if (buf.length < 7000) return false
MinDesignBytes == 7000

\* body lengths a download can return
FetchSizes == { 4000, MinDesignBytes }

STR_hoodie_black_4001_jpg ==
  << "h","o","o","d","i","e","-","b","l","a","c","k","-","4","0","0","1",".","j","p","g" >>
STR_tee_red_4001_jpg ==
  << "t","e","e","-","r","e","d","-","4","0","0","1",".","j","p","g" >>
STR_tee_red_40_jpg ==
  << "t","e","e","-","r","e","d","-","4","0",".","j","p","g" >>
STR_mystery_widget_99 ==
  << "m","y","s","t","e","r","y","-","w","i","d","g","e","t","-","9","9" >>

\* sets of request strings; one of them is picked per run
Scenarios ==
  { { STR_hoodie_black_4001_jpg, STR_tee_red_4001_jpg },
    { STR_tee_red_4001_jpg, STR_tee_red_40_jpg },
    { STR_mystery_widget_99 } }

\* files present in template/
Templates == { tplFile(f) : f \in UNION Scenarios }

\* size of the trimmed content of the design published as version v
TrimDims(v) == << 600 \div v, 300 * v >>

NoFile == [ st |-> "absent", ver |-> 0, geo |-> << >>, by |-> "none" ]
NoComp == [ ver |-> 0, geo |-> << >> ]

exists(dir, name) == name \in DOMAIN dir /\ dir[name].st # "absent"

\* variant of the deletion that leaves the files in place
Unlink_none(dir, names) == dir

\* fs.unlinkSync of every name in the set
Unlink(dir, names) == [ n \in DOMAIN dir |-> IF n \in names THEN NoFile ELSE dir[n] ]

(***************************************************************************)
(* Initial state                                                           *)
(***************************************************************************)
InitFnIdle ==
  /\ fnTask = "none"
  /\ fnArg = << >>
  /\ fnRes = [ done |-> FALSE ]

InitHttp ==
  /\ design = [ n \in { gFile(f) : f \in scenario } |-> NoFile ]
  /\ output = [ f \in scenario |-> NoFile ]
  /\ remote = 1
  /\ file = [ c \in Conns |-> << >> ]
  /\ hpc = [ c \in Conns |-> "idle" ]
  /\ gpc = [ c \in Conns |-> "none" ]
  /\ wt = [ c \in Conns |-> "none" ]
  /\ resp = [ c \in Conns |-> "none" ]
  /\ buf = [ c \in Conns |-> 0 ]
  /\ comp = [ c \in Conns |-> NoComp ]
  /\ ret = [ c \in Conns |-> FALSE ]

Init ==
  /\ InitFnIdle
  /\ scenario \in Scenarios
  /\ InitHttp

(***************************************************************************)
(* Route handlers and generateImage (v4.1)                                 *)
(***************************************************************************)
\* withTimeout(generateImage(fn), ...): generateImage runs up to its first
\* await, fileExists(localG)
StartGeneration(c) ==
  /\ hpc' = [hpc EXCEPT ![c] = "await"]
  /\ wt' = [wt EXCEPT ![c] = "pending"]
  /\ gpc' = [gpc EXCEPT ![c] = "exists"]

\* generateImage returns val: its promise settles, withTimeout resolves unless
\* the timer already rejected it, and the handler answers in the same tick
Settle(c, val, out) ==
  /\ gpc' = [gpc EXCEPT ![c] = "done"]
  /\ ret' = [ret EXCEPT ![c] = val]
  /\ IF wt[c] = "pending"
       THEN /\ wt' = [wt EXCEPT ![c] = "resolved"]
            /\ hpc' = [hpc EXCEPT ![c] = "done"]
            /\ resp' = [resp EXCEPT ![c] =
                 IF val THEN (IF exists(out, file[c]) THEN "output" ELSE "error")
                        ELSE "fallback"]
       ELSE UNCHANGED << wt, hpc, resp >>

\* a connection is free once its handler has answered and its generateImage
\* has returned
Free(c) == hpc[c] \in { "idle", "done" } /\ gpc[c] \in { "none", "done" }

\* the per-request locals of a handler that starts on connection c for f
Accept(c, f) ==
  /\ file' = [file EXCEPT ![c] = f]
  /\ resp' = [resp EXCEPT ![c] = "none"]
  /\ buf' = [buf EXCEPT ![c] = 0]
  /\ comp' = [comp EXCEPT ![c] = NoComp]
  /\ ret' = [ret EXCEPT ![c] = FALSE]

\* variant of the handler without the cache test: it always regenerates
Autogen_noCache(c) ==
  /\ Free(c)
  /\ \E f \in scenario :
       /\ Accept(c, f)
       /\ StartGeneration(c)
  /\ UNCHANGED << fnVars, scenario, design, output, remote >>

\* GET /autogen/:file up to the result of fileExists(out): a hit goes on to
\* sendFile, a miss calls generateImage
Autogen(c) ==
  /\ Free(c)
  /\ \E f \in scenario :
       /\ Accept(c, f)
       /\ IF exists(output, f)
            THEN /\ hpc' = [hpc EXCEPT ![c] = "hit"]
                 /\ gpc' = [gpc EXCEPT ![c] = "none"]
                 /\ wt' = [wt EXCEPT ![c] = "none"]
            ELSE StartGeneration(c)
  /\ UNCHANGED << fnVars, scenario, design, output, remote >>

\* GET /autogen/:file, cache hit: res.type("jpg").sendFile(out)
SendHit(c) ==
  /\ hpc[c] = "hit"
  /\ hpc' = [hpc EXCEPT ![c] = "done"]
  /\ resp' = [resp EXCEPT ![c] =
       IF exists(output, file[c]) THEN "output" ELSE "error"]
  /\ UNCHANGED << fnVars, scenario, design, output, remote, file,
                  gpc, wt, buf, comp, ret >>

\* GET /bust/:file up to the result of fileExists(out)
Bust(c) ==
  /\ Free(c)
  /\ \E f \in scenario :
       /\ Accept(c, f)
       /\ hpc' = [hpc EXCEPT ![c] = IF exists(output, f) THEN "unlink" ELSE "sweep"]
  /\ gpc' = [gpc EXCEPT ![c] = "none"]
  /\ wt' = [wt EXCEPT ![c] = "none"]
  /\ UNCHANGED << fnVars, scenario, design, output, remote >>

\* GET /bust/:file, the synchronous part after the check: unlink the output if
\* the check saw it, unlink the design files that start with dNum, regenerate.
\* unlinkSync of an output that has vanished meanwhile throws into the catch.
BustDelete(c) ==
  /\ hpc[c] \in { "unlink", "sweep" }
  /\ IF hpc[c] = "unlink" /\ ~exists(output, file[c])
       THEN /\ hpc' = [hpc EXCEPT ![c] = "done"]
            /\ resp' = [resp EXCEPT ![c] = "fallback"]
            /\ UNCHANGED << design, output, gpc, wt >>
       ELSE /\ output' = IF hpc[c] = "unlink" THEN Unlink(output, { file[c] })
                                              ELSE output
            /\ design' = Unlink(design,
                 { n \in DOMAIN design :
                     exists(design, n) /\ startsWith(n, bustDNum(file[c])) })
            /\ StartGeneration(c)
            /\ UNCHANGED resp
  /\ UNCHANGED << fnVars, scenario, remote, file, buf, comp, ret >>

\* variant without the design-cache test: the asset is downloaded every time
GenExists_alwaysFetch(c) ==
  /\ gpc[c] = "exists"
  /\ gpc' = [gpc EXCEPT ![c] = "fetch"]
  /\ UNCHANGED << fnVars, scenario, design, output, remote, file,
                  hpc, wt, resp, buf, comp, ret >>

\* generateImage, the result of fileExists(localG)
GenExists(c) ==
  /\ gpc[c] = "exists"
  /\ gpc' = [gpc EXCEPT ![c] =
       IF exists(design, gFile(file[c])) THEN "read" ELSE "fetch"]
  /\ UNCHANGED << fnVars, scenario, design, output, remote, file,
                  hpc, wt, resp, buf, comp, ret >>

\* downloadImage: fetch and resp.buffer() either throw or deliver a body; a
\* body of at least 7000 bytes is handed to writeFile, which creates the file
GenFetch(c) ==
  /\ gpc[c] = "fetch"
  /\ \/ /\ Settle(c, FALSE, output)
        /\ UNCHANGED << design, buf >>
     \/ \E len \in FetchSizes :
          /\ buf' = [buf EXCEPT ![c] = len]
          /\ IF len < MinDesignBytes
               THEN /\ Settle(c, FALSE, output)
                    /\ UNCHANGED design
               ELSE /\ design' = [design EXCEPT ![gFile(file[c])] =
                         [ st |-> "partial", ver |-> remote, geo |-> << >>, by |-> c ]]
                    /\ gpc' = [gpc EXCEPT ![c] = "dwrite"]
                    /\ UNCHANGED << hpc, wt, resp, ret >>
  /\ UNCHANGED << fnVars, scenario, output, remote, file, comp >>

\* writeFile calls back: the data is on disk unless the name was unlinked, or
\* reopened by another writer, in the meantime; downloadImage returns true
\* and its buf goes out of scope
GenDesignWritten(c) ==
  /\ gpc[c] = "dwrite"
  /\ design' =
       IF design[gFile(file[c])].st = "partial" /\ design[gFile(file[c])].by = c
         THEN [design EXCEPT ![gFile(file[c])].st = "full", ![gFile(file[c])].by = "none"]
         ELSE design
  /\ gpc' = [gpc EXCEPT ![c] = "read"]
  /\ buf' = [buf EXCEPT ![c] = 0]
  /\ UNCHANGED << fnVars, scenario, output, remote, file, hpc, wt,
                  resp, comp, ret >>

\* variant whose resize is not reproducible: the target height comes out one
\* pixel higher on some runs
Composites_unstable(f, v) ==
  LET pk == PlacementKey(getProductFromTemplate(tplName(f)))
  IN  IF ~Repositions(pk)
        THEN { [ ver |-> v, geo |-> << >> ] }
        ELSE UNION { { [ ver |-> v, geo |-> << p.tw, p.th, p.top, p.left >> ],
                       [ ver |-> v, geo |-> << p.tw, p.th + 1, p.top, p.left >> ] } :
                     p \in Placements(PL[pk], TrimDims(v)[1], TrimDims(v)[2]) }

\* the composite generateImage prepares from design content of version v
Composites(f, v) ==
  LET pk == PlacementKey(getProductFromTemplate(tplName(f)))
  IN  IF ~Repositions(pk)
        THEN { [ ver |-> v, geo |-> << >> ] }
        ELSE { [ ver |-> v, geo |-> << p.tw, p.th, p.top, p.left >> ] :
                 p \in Placements(PL[pk], TrimDims(v)[1], TrimDims(v)[2]) }

\* sharp rejects a zero-sized resize
Resizable(cp) == cp.geo = << >> \/ (cp.geo[1] >= 1 /\ cp.geo[2] >= 1)

\* variant in which the output file is opened before the inputs are decoded,
\* so that a failed decode leaves a half-written output file behind
GenRead_opensOutputFirst(c) ==
  /\ gpc[c] = "read"
  /\ IF design[gFile(file[c])].st = "full" /\ tplFile(file[c]) \in Templates
       THEN /\ \E cp \in Composites(file[c], design[gFile(file[c])].ver) :
                 IF Resizable(cp)
                   THEN /\ comp' = [comp EXCEPT ![c] = cp]
                        /\ gpc' = [gpc EXCEPT ![c] = "compose"]
                        /\ UNCHANGED << hpc, wt, resp, ret >>
                   ELSE /\ Settle(c, FALSE, output)
                        /\ UNCHANGED comp
            /\ UNCHANGED output
       ELSE /\ output' = [output EXCEPT ![file[c]] =
                 [ st |-> "partial", ver |-> 0, geo |-> << >>, by |-> c ]]
            /\ Settle(c, FALSE, output')
            /\ UNCHANGED comp
  /\ UNCHANGED << fnVars, scenario, design, remote, file, buf >>

\* generateImage from the classification on: sharp decodes localG (as it is
\* for a tee, trimmed and resized otherwise) and the template; a missing or
\* half-written input throws into the catch, which returns false
GenRead(c) ==
  /\ gpc[c] = "read"
  /\ IF design[gFile(file[c])].st = "full" /\ tplFile(file[c]) \in Templates
       THEN \E cp \in Composites(file[c], design[gFile(file[c])].ver) :
              IF Resizable(cp)
                THEN /\ comp' = [comp EXCEPT ![c] = cp]
                     /\ gpc' = [gpc EXCEPT ![c] = "compose"]
                     /\ UNCHANGED << hpc, wt, resp, ret >>
                ELSE /\ Settle(c, FALSE, output)
                     /\ UNCHANGED comp
       ELSE /\ Settle(c, FALSE, output)
            /\ UNCHANGED comp
  /\ UNCHANGED << fnVars, scenario, design, output, remote, file, buf >>

\* toFile(output) opens the output file
GenOutBegin(c) ==
  /\ gpc[c] = "compose"
  /\ output' = [output EXCEPT ![file[c]] =
       [ st |-> "partial", ver |-> comp[c].ver, geo |-> comp[c].geo, by |-> c ]]
  /\ comp' = [comp EXCEPT ![c] = NoComp]
  /\ gpc' = [gpc EXCEPT ![c] = "owrite"]
  /\ UNCHANGED << fnVars, scenario, design, remote, file, hpc, wt, resp,
                  buf, ret >>

\* toFile(output) resolves and generateImage returns its info object
GenOutEnd(c) ==
  /\ gpc[c] = "owrite"
  /\ output' =
       IF output[file[c]].st = "partial" /\ output[file[c]].by = c
         THEN [output EXCEPT ![file[c]].st = "full", ![file[c]].by = "none"]
         ELSE output
  /\ Settle(c, TRUE, output')
  /\ UNCHANGED << fnVars, scenario, design, remote, file, buf, comp >>

\* variant in which the timer is armed only once generateImage has settled,
\* as in withTimeout(await generateImage(fn), ms)
TimerFire_afterGen(c) ==
  /\ hpc[c] = "await" /\ wt[c] = "pending" /\ gpc[c] = "done"
  /\ wt' = [wt EXCEPT ![c] = "rejected"]
  /\ hpc' = [hpc EXCEPT ![c] = "done"]
  /\ resp' = [resp EXCEPT ![c] = "fallback"]
  /\ UNCHANGED << fnVars, scenario, design, output, remote, file,
                  gpc, buf, comp, ret >>

\* the timer of withTimeout fires before generateImage has settled: the
\* handler's catch answers with the fallback; generateImage keeps running
TimerFire(c) ==
  /\ hpc[c] = "await" /\ wt[c] = "pending"
  /\ wt' = [wt EXCEPT ![c] = "rejected"]
  /\ hpc' = [hpc EXCEPT ![c] = "done"]
  /\ resp' = [resp EXCEPT ![c] = "fallback"]
  /\ UNCHANGED << fnVars, scenario, design, output, remote, file,
                  gpc, buf, comp, ret >>

\* GET /bust-all/:dNum: one synchronous handler
BustAll(n) ==
  /\ design' = Unlink(design,
       { f \in DOMAIN design : exists(design, f) /\ startsWith(f, n) })
  /\ output' = Unlink(output,
       { f \in DOMAIN output :
           exists(output, f) /\ includes(f, Hyphen \o n \o DotJpg) })
  /\ UNCHANGED << fnVars, scenario, remote, file, hpc, gpc, wt,
                  resp, buf, comp, ret >>

\* the design pipeline publishes new artwork under the same design numbers
UpstreamChange ==
  /\ remote < MaxVersion
  /\ remote' = remote + 1
  /\ UNCHANGED << fnVars, scenario, design, output, file, hpc, gpc,
                  wt, resp, buf, comp, ret >>

\* design numbers clients ask /bust-all to clear
BustNums == { dNum(f) : f \in scenario }

Next ==
  \/ \E c \in Conns : Autogen(c)
  \/ \E c \in Conns : SendHit(c)
  \/ \E c \in Conns : Bust(c)
  \/ \E c \in Conns : BustDelete(c)
  \/ \E c \in Conns : GenExists(c)
  \/ \E c \in Conns : GenFetch(c)
  \/ \E c \in Conns : GenDesignWritten(c)
  \/ \E c \in Conns : GenRead(c)
  \/ \E c \in Conns : GenOutBegin(c)
  \/ \E c \in Conns : GenOutEnd(c)
  \/ \E c \in Conns : TimerFire(c)
  \/ \E n \in BustNums : BustAll(n)
  \/ UpstreamChange

Spec == Init /\ [][Next]_vars
\* Node runs a timer callback once it is due: every armed timer that stays
\* armed eventually fires.  Nothing obliges a fetch or sharp to finish.
InitLive ==
  /\ InitFnIdle
  /\ scenario = { STR_mystery_widget_99 }
  /\ InitHttp

LiveSpec ==
  InitLive /\ [][Next]_vars /\ \A c \in Conns : WF_vars(TimerFire(c))

(***************************************************************************)
(* Harness for the pure functions: classifier, request parser, placement   *)
(***************************************************************************)
\* extracted design sizes tried: 1 and the multiples of DimStep
DimStep == 100
DimCount == 12
Dims == { 1 } \cup { k * DimStep : k \in 1..DimCount }

ToUpperChar(ch) ==
  IF \E i \in 1..Len(LowerAlpha) : LowerAlpha[i] = ch
    THEN UpperAlpha[CHOOSE i \in 1..Len(LowerAlpha) : LowerAlpha[i] = ch]
    ELSE ch

toUpperCase(s) == [i \in 1..Len(s) |-> ToUpperChar(s[i])]

STR_black == << "b","l","a","c","k" >>
STR_navy_xl == << "n","a","v","y","-","x","l" >>
STR_mystery_widget == << "m","y","s","t","e","r","y","-","w","i","d","g","e","t" >>
STR_work_navy == << "w","o","r","k","-","n","a","v","y" >>
STR_tee == << "t","e","e" >>
STR_hoodie_black == << "h","o","o","d","i","e","-","b","l","a","c","k" >>
STR_hoodie_heather_grey ==
  << "h","o","o","d","i","e","-","h","e","a","t","h","e","r","-","g","r","e","y" >>
STR_coachback_navy == << "c","o","a","c","h","b","a","c","k","-","n","a","v","y" >>
STR_4001 == << "4","0","0","1" >>
STR_40 == << "4","0" >>
STR_99 == << "9","9" >>

Vocabulary == { PRODUCT_PREFIXES[i] : i \in 1..Len(PRODUCT_PREFIXES) }
Suffixes == { STR_black, STR_navy_xl }

\* template identifiers handed to the classifier: every vocabulary entry bare,
\* followed by "-" and a suffix, in upper case, glued to a letter without the
\* separator, and identifiers outside the vocabulary
ClassifyInputs ==
  Vocabulary
    \cup { p \o Hyphen \o s : p \in Vocabulary, s \in Suffixes }
    \cup { toUpperCase(p \o Hyphen \o STR_black) : p \in Vocabulary }
    \cup { p \o << "x" >> \o Hyphen \o STR_black : p \in Vocabulary }
    \cup { STR_mystery_widget, STR_work_navy, << >>, Hyphen }

\* request strings <templateIdentifier>-<designNumber>.jpg, the template
\* identifier with zero, one and two internal hyphens
ParseInputs ==
  [ tpl : { STR_tee, STR_hoodie_black, STR_coachback_navy, STR_mystery_widget,
            STR_hoodie_heather_grey },
    num : { STR_4001, STR_40, STR_99 } ]

RequestString(a) == a.tpl \o Hyphen \o a.num \o DotJpg

PlaceInputs ==
  [ pk : { k \in DOMAIN PL : PL[k].r }, dw : Dims, dh : Dims ]

InitFn ==
  /\ \/ fnTask = "classify" /\ fnArg \in ClassifyInputs
     \/ fnTask = "parse" /\ fnArg \in ParseInputs
     \/ fnTask = "place" /\ fnArg \in PlaceInputs
  /\ fnRes = [ done |-> FALSE ]
  /\ scenario = { STR_mystery_widget_99 }
  /\ InitHttp

\* getProductFromTemplate, in its three copies, and the placement lookup of
\* generateImage
Classify ==
  /\ fnTask = "classify" /\ ~fnRes.done
  /\ fnRes' = [ done      |-> TRUE,
                product   |-> getProductFromTemplate(fnArg),
                product22 |-> getProductFromTemplate_v22(fnArg),
                product23 |-> getProductFromTemplate_v23(fnArg),
                pk        |-> PlacementKey(getProductFromTemplate(fnArg)) ]
  /\ UNCHANGED << fnTask, fnArg, httpVars >>

\* the first lines of generateImage and of the /bust handler
Parse ==
  /\ fnTask = "parse" /\ ~fnRes.done
  /\ fnRes' = [ done     |-> TRUE,
                tplName  |-> tplName(RequestString(fnArg)),
                dNum     |-> dNum(RequestString(fnArg)),
                bustDNum |-> bustDNum(RequestString(fnArg)) ]
  /\ UNCHANGED << fnTask, fnArg, httpVars >>

\* the repositioning arithmetic of generateImage
Place ==
  /\ fnTask = "place" /\ ~fnRes.done
  /\ \E p \in Placements(PL[fnArg.pk], fnArg.dw, fnArg.dh) :
       fnRes' = [ done |-> TRUE, tw |-> p.tw, th |-> p.th,
                  top |-> p.top, left |-> p.left ]
  /\ UNCHANGED << fnTask, fnArg, httpVars >>

NextFn == Classify \/ Parse \/ Place

SpecFn == InitFn /\ [][NextFn]_vars

(***************************************************************************)
(* Properties                                                              *)
(***************************************************************************)
\* the matching rule of the classifier contract: the identifier, compared
\* without regard to case, equals the entry or starts with entry + "-"
MatchesEntry(x, p) ==
  toLowerCase(x) = p \/ startsWith(toLowerCase(x), p \o Hyphen)

\* the longest vocabulary entry that matches x, Null when none does
LongestMatching(x) ==
  LET M == { p \in Vocabulary : MatchesEntry(x, p) }
  IN  IF M = {} THEN Null
      ELSE CHOOSE p \in M : \A q \in M : Len(q) <= Len(p)

STR_hoodieback_black ==
  << "h","o","o","d","i","e","b","a","c","k","-","b","l","a","c","k" >>

\* C1: getProductFromTemplate(x) is the longest vocabulary entry p with
\* lower(x) = p or lower(x) starting with p + "-" (null when there is none);
\* an identifier p + "-" + s is never classified as a shorter entry that is a
\* prefix of p.
C1_LongestPrefixWins ==
  (fnTask = "classify" /\ fnRes.done) =>
    /\ fnRes.product = LongestMatching(fnArg)
    /\ \A p \in Vocabulary :
         startsWith(toLowerCase(fnArg), p \o Hyphen) =>
           ~ ( /\ fnRes.product \in Vocabulary
               /\ Len(fnRes.product) < Len(p)
               /\ startsWith(p, fnRes.product) )

C1_Witness ==
  /\ fnTask = "classify" /\ fnRes.done
  /\ fnArg = toUpperCase(STR_hoodieback_black)
  /\ fnRes.product = SubSeq(STR_hoodieback_black, 1, 10)

\* C3: a request string <templateIdentifier>-<designNumber>.jpg is decoded
\* into (templateIdentifier, designNumber) whether the template identifier has
\* zero, one or several internal hyphens, and generateImage and the /bust
\* handler derive the same design number.
C3_ParserDecodes ==
  (fnTask = "parse" /\ fnRes.done) =>
    /\ fnRes.tplName = fnArg.tpl
    /\ fnRes.dNum = fnArg.num
    /\ fnRes.bustDNum = fnRes.dNum

\* C9 as stated: the target size fits the exact box maxWidthFraction*CW by
\* maxHeightFraction*CH.
C9_FitsExactFractions ==
  (fnTask = "place" /\ fnRes.done) =>
    /\ fnRes.tw * FracDen <= PL[fnArg.pk].w * CW
    /\ fnRes.th * FracDen <= PL[fnArg.pk].h * CH

\* C9 amended: the target size fits the rounded box, targetW <= maxW =
\* round(CW * maxWidthFraction) and targetH <= maxH = round(CH *
\* maxHeightFraction).
C9_FitsRoundedBox ==
  (fnTask = "place" /\ fnRes.done) =>
    /\ fnRes.tw <= maxW(PL[fnArg.pk])
    /\ fnRes.th <= maxH(PL[fnArg.pk])

\* a width-bound design on the sweat box: 368 px, wider than 0.445 * 826
C9_Witness ==
  /\ fnTask = "place" /\ fnRes.done
  /\ fnArg.pk = "sweat"
  /\ fnRes.tw = maxW(PL.sweat)
  /\ fnRes.tw * FracDen > PL.sweat.w * CW

Abs(i) == IF i < 0 THEN -i ELSE i

\* C10: with scale = min(maxW/dw, maxH/dh), targetW and targetH are within
\* half a pixel of dw*scale and dh*scale, the same scale on both axes.
C10_AspectPreserved ==
  (fnTask = "place" /\ fnRes.done) =>
    LET mw == maxW(PL[fnArg.pk])
        mh == maxH(PL[fnArg.pk])
        dw == fnArg.dw
        dh == fnArg.dh
    IN  IF mw * dh <= mh * dw
          THEN /\ 2 * Abs(fnRes.tw * dw - dw * mw) <= dw
               /\ 2 * Abs(fnRes.th * dw - dh * mw) <= dw
          ELSE /\ 2 * Abs(fnRes.tw * dh - dw * mh) <= dh
               /\ 2 * Abs(fnRes.th * dh - dh * mh) <= dh

\* a height-bound design whose scaled width is not a whole number of pixels
C10_Witness ==
  /\ fnTask = "place" /\ fnRes.done
  /\ fnRes.th = maxH(PL[fnArg.pk])
  /\ (fnArg.dw * maxH(PL[fnArg.pk])) % fnArg.dh # 0
  /\ fnRes.tw >= 1

\* x, compared without regard to case, matches no vocabulary entry
NoVocabularyMatch(x) ==
  LET lx == toLowerCase(x)
  IN  \A p \in Vocabulary : ~ (lx = p \/ startsWith(lx, p \o Hyphen))

\* C2: a template identifier that matches no vocabulary entry classifies as
\* null, looks up the tee entry (no repositioning), and its composite takes the
\* cached design as it is: no trim, no resize, no top/left.
C2_UnclassifiedCompositesAsIs ==
  \A f \in scenario :
    NoVocabularyMatch(tplName(f)) =>
      /\ getProductFromTemplate(tplName(f)) = Null
      /\ PlacementKey(getProductFromTemplate(tplName(f))) = "tee"
      /\ ~Repositions(PlacementKey(getProductFromTemplate(tplName(f))))
      /\ output[f].geo = << >>
      /\ \A c \in Conns : file[c] = f => comp[c].geo = << >>

C2_Witness ==
  /\ STR_mystery_widget_99 \in scenario
  /\ tplName(STR_mystery_widget_99) = STR_mystery_widget
  /\ output[STR_mystery_widget_99].st = "full"
  /\ output[STR_mystery_widget_99].ver >= 1

\* C4: when GET /bust-all/:dNum has run for n (here with no other request in
\* flight), output/ holds no composite of design number n, whatever the
\* template, and design/ does not hold n.png.
C4_BustAllClears ==
  [][ \A n \in BustNums : (BustAll(n) /\ \A c \in Conns : Free(c)) =>
        /\ \A f \in DOMAIN output' : dNum(f) = n => ~exists(output', f)
        /\ \A g \in DOMAIN design' : g = n \o DotPng => ~exists(design', g) ]_vars

\* C5 as stated: the deletions of GET /bust/:file for (t, n) (here with no
\* other request in flight and the existence check still accurate) leave no
\* composite of design number n and no design file of n.
C5_BustRemovesAllOfDesign ==
  [][ \A c \in Conns :
        ( /\ BustDelete(c) /\ hpc'[c] = "await"
          /\ (hpc[c] = "unlink") = exists(output, file[c])
          /\ \A d \in Conns \ { c } : Free(d) ) =>
        /\ \A f \in DOMAIN output' :
             dNum(f) = bustDNum(file[c]) => ~exists(output', f)
        /\ \A g \in DOMAIN design' :
             g = bustDNum(file[c]) \o DotPng => ~exists(design', g) ]_vars

\* C5 amended: the synchronous part of GET /bust/:file unlinks the composite
\* of the requested file when the existence check had found it, leaves every
\* other composite as it was, and, unless unlinking the output threw, leaves
\* no design file whose name starts with n.
C5_BustRemovesRequestedComposite ==
  [][ \A c \in Conns : BustDelete(c) =>
        /\ hpc[c] = "unlink" => ~exists(output', file[c])
        /\ hpc[c] = "sweep" => output' = output
        /\ \A f \in DOMAIN output : f # file[c] => output'[f] = output[f]
        /\ hpc'[c] = "await" =>
             \A g \in DOMAIN design' :
               startsWith(g, bustDNum(file[c])) => ~exists(design', g) ]_vars

\* a /bust of tee-red-4001.jpg has deleted 4001.png and its own composite and
\* is regenerating, while the composite of hoodie-black-4001.jpg is still cached
C5_Witness ==
  /\ scenario = { STR_hoodie_black_4001_jpg, STR_tee_red_4001_jpg }
  /\ output[STR_hoodie_black_4001_jpg].st = "full"
  /\ ~exists(output, STR_tee_red_4001_jpg)
  /\ ~exists(design, STR_4001 \o DotPng)
  /\ \E c \in Conns :
       file[c] = STR_tee_red_4001_jpg /\ hpc[c] = "await" /\ gpc[c] = "exists"

\* C6: every /autogen and /bust request is answered with the composite or
\* with the fallback JPEG, never with an error.
C6_AlwaysAnImage ==
  \A c \in Conns : resp[c] \in { "none", "output", "fallback" }

\* C7: a request that waits for generateImage is answered even if
\* generateImage never settles; when the timer fires first the answer is the
\* fallback; and once withTimeout has settled neither its state nor the answer
\* changes for that request.
C7_TimeoutBoundsGeneration ==
  /\ \A c \in Conns : (hpc[c] = "await") ~> (hpc[c] = "done")
  /\ [][ \A c \in Conns :
           /\ (wt[c] = "pending" /\ wt'[c] = "rejected") =>
                (resp'[c] = "fallback" /\ hpc'[c] = "done")
           /\ (wt[c] \in { "resolved", "rejected" } /\ hpc'[c] = "done") =>
                (wt'[c] = wt[c] /\ resp'[c] = resp[c]) ]_vars

\* the timer has answered with the fallback and generateImage, abandoned, is
\* still writing the output
C7_Witness ==
  \E c \in Conns :
    wt[c] = "rejected" /\ resp[c] = "fallback" /\ gpc[c] = "owrite"

\* the byte-size sanity threshold of the asset store
SanityThreshold == 7000

\* C8: a download shorter than 7000 bytes writes nothing to design/ or
\* output/, makes generateImage return false, and the request is answered with
\* the fallback image.
C8_UndersizedFetchFails ==
  /\ [] ( \A c \in Conns :
            (buf[c] # 0 /\ buf[c] < SanityThreshold) =>
              /\ gpc[c] = "done" /\ ret[c] = FALSE
              /\ hpc[c] = "done" /\ resp[c] = "fallback" )
  /\ [][ \A c \in Conns :
           (buf'[c] # buf[c] /\ buf'[c] # 0 /\ buf'[c] < SanityThreshold) =>
             (design' = design /\ output' = output) ]_vars

\* a 4000-byte body made generateImage return false before the timer fired
C8_Witness ==
  \E c \in Conns :
    /\ buf[c] = 4000 /\ ret[c] = FALSE /\ gpc[c] = "done"
    /\ wt[c] = "resolved" /\ resp[c] = "fallback"
    /\ ~exists(design, gFile(file[c])) /\ ~exists(output, file[c])

\* C11: for every repositioning entry and every trimmed design size, the box
\* [left, left+targetW) x [top, top+targetH) lies within the CW x CH canvas,
\* with centred and with fixed horizontal anchoring.
C11_BoxWithinCanvas ==
  (fnTask = "place" /\ fnRes.done) =>
    /\ fnRes.left >= 0
    /\ fnRes.top >= 0
    /\ fnRes.left + fnRes.tw <= CW
    /\ fnRes.top + fnRes.th <= CH

\* a width-bound design placed on the coach entry at its fixed left edge
C11_Witness ==
  /\ fnTask = "place" /\ fnRes.done
  /\ fnArg.pk = "coach" /\ IsFixedLeft(PL[fnArg.pk])
  /\ fnRes.tw = maxW(PL.coach)
  /\ fnRes.left = MathRound(CW * PL.coach.x, FracDen)
  /\ fnRes.th >= 1

\* C12 as stated: a 600 x 300 design on the hoodie entry is placed as
\* 413 x 206 at top 243, left 207.
C12_HoodieExample ==
  (fnTask = "place" /\ fnRes.done /\ fnArg.pk = "hoodie"
     /\ fnArg.dw = 600 /\ fnArg.dh = 300) =>
    /\ maxW(PL.hoodie) = 413 /\ maxH(PL.hoodie) = 384
    /\ fnRes.tw = 413 /\ fnRes.th = 206
    /\ fnRes.top = 243 /\ fnRes.left = 207

\* C12 amended: the same placement with target height 207, Math.round of
\* 300 * (413 / 600) = 206.5.
C12_HoodieExampleRoundsUp ==
  (fnTask = "place" /\ fnRes.done /\ fnArg.pk = "hoodie"
     /\ fnArg.dw = 600 /\ fnArg.dh = 300) =>
    /\ maxW(PL.hoodie) = 413 /\ maxH(PL.hoodie) = 384
    /\ fnRes.tw = 413 /\ fnRes.th = 207
    /\ fnRes.top = 243 /\ fnRes.left = 207

C12_Witness ==
  /\ fnTask = "place" /\ fnRes.done /\ fnArg.pk = "hoodie"
  /\ fnArg.dw = 600 /\ fnArg.dh = 300
  /\ fnRes.th = 207

\* C13: a trimmed design narrower or lower than 10 px is not scaled and
\* composited: no resize to a positive target size is computed for it.
C13_DegenerateNotScaled ==
  (fnTask = "place" /\ fnRes.done /\ (fnArg.dw < 10 \/ fnArg.dh < 10)) =>
    ~ (fnRes.tw >= 1 /\ fnRes.th >= 1)

\* C14: a request for a file whose composite exists takes the cache-hit path
\* and nothing else: generateImage is not called (no generation position, no
\* timer), the step that finds the hit and the step that sends the file leave
\* design/ and output/ as they are, and the composite on disk is what is sent,
\* whatever the version published upstream.
C14_CacheHitTrusted ==
  /\ [] ( \A c \in Conns : hpc[c] = "hit" => (gpc[c] = "none" /\ wt[c] = "none") )
  /\ [][ \A c \in Conns :
           /\ (hpc[c] \in { "idle", "done" } /\ hpc'[c] = "await") =>
                ~exists(output, file'[c])
           /\ (hpc[c] \in { "idle", "done" } /\ hpc'[c] = "hit") =>
                (exists(output, file'[c]) /\ design' = design /\ output' = output)
           /\ (hpc[c] = "hit" /\ hpc'[c] = "done") =>
                /\ design' = design /\ output' = output
                /\ gpc'[c] = "none" /\ wt'[c] = "none"
                /\ resp'[c] # "fallback"
                /\ exists(output, file[c]) => resp'[c] = "output" ]_vars

\* a hit answered with a composite older than the asset published upstream
C14_Witness ==
  \E c \in Conns :
    /\ hpc[c] = "done" /\ resp[c] = "output"
    /\ wt[c] = "none" /\ gpc[c] = "none"
    /\ output[file[c]].st = "full"
    /\ output[file[c]].ver < remote

\* the composite the generation on connection c has prepared or is writing
WritesOf(c) ==
  IF gpc[c] = "compose" THEN { comp[c] }
  ELSE IF gpc[c] = "owrite" /\ output[file[c]].by = c
         THEN { [ ver |-> output[file[c]].ver, geo |-> output[file[c]].geo ] }
         ELSE { }

C16_FetchedOncePerBust ==
  [][ \A c \in Conns :
        (gpc[c] = "fetch" /\ gpc'[c] = "dwrite") =>
          design[gFile(file[c])].st # "full" ]_vars

\* C16 amended: a generation whose fileExists test finds the design file goes
\* on to read it and never fetches; a fetch is started only from a test that
\* found no file; and a design file cached in full changes only when a bust
\* deletes it or when a generation whose test came before the file was
\* written downloads it again.
C16_ReusedAfterCheck ==
  [][ /\ \A c \in Conns :
          /\ (gpc[c] = "exists" /\ exists(design, gFile(file[c]))) =>
               gpc'[c] \in { "exists", "read" }
          /\ (gpc'[c] = "fetch" /\ gpc[c] # "fetch") =>
               (gpc[c] = "exists" /\ ~exists(design, gFile(file[c])))
          /\ (gpc'[c] = "dwrite" /\ gpc[c] # "dwrite") => gpc[c] = "fetch"
      /\ \A g \in DOMAIN design :
          (design[g].st = "full" /\ design'[g] # design[g]) =>
            \/ design'[g] = NoFile
            \/ \E c \in Conns :
                 /\ gpc[c] = "fetch" /\ gFile(file[c]) = g
                 /\ design'[g].by = c ]_vars

\* a generation for another template of the same design reads the design
\* file an earlier generation fetched
C16_Witness ==
  \E c \in Conns :
    /\ gpc[c] = "read" /\ buf[c] = 0
    /\ design[gFile(file[c])].st = "full"
    /\ ~exists(output, file[c])
    /\ \E f \in DOMAIN output :
         /\ f # file[c] /\ gFile(f) = gFile(file[c])
         /\ output[f].st = "full"
         /\ output[f].ver = design[gFile(file[c])].ver

\* the PlacementSpec invariant for one repositioning entry, fractions in
\* thousandths
WellFormedSpec(cfg) ==
  /\ cfg.w \in 1..FracDen
  /\ cfg.h \in 1..FracDen
  /\ cfg.y \in 1..FracDen
  /\ ("x" \in DOMAIN cfg) = IsFixedLeft(cfg)
  /\ "x" \in DOMAIN cfg => cfg.x \in 1..FracDen

\* C17: every repositioning entry of PL has its three fractions in (0,1], and
\* has a fixed horizontal fraction x, itself in (0,1], exactly when lc is true;
\* so has the entry of every placement that is computed.
C17_PlacementSpecInvariant ==
  /\ \A k \in DOMAIN PL : PL[k].r => WellFormedSpec(PL[k])
  /\ fnTask = "place" => WellFormedSpec(PL[fnArg.pk])

\* a placement computed from the one entry with a fixed horizontal fraction
C17_Witness ==
  /\ fnTask = "place" /\ fnRes.done
  /\ "x" \in DOMAIN PL[fnArg.pk] /\ PL[fnArg.pk].lc
  /\ fnRes.left * FracDen <= CW * PL[fnArg.pk].x + FracDen

Reverse(seq) == [ i \in 1..Len(seq) |-> seq[Len(seq) + 1 - i] ]

\* the vocabulary listed in the opposite order, then sorted as the classifier
\* sorts it
sortedReversed == SortByLengthDesc(Reverse(PRODUCT_PREFIXES))

\* the classifier rule applied to the vocabulary listed in the opposite order
ClassifyReversed(x) ==
  LET hits == { i \in 1..Len(sortedReversed) : MatchesEntry(x, sortedReversed[i]) }
  IN  IF hits = {} THEN Null ELSE sortedReversed[SetMin(hits)]

\* C18: at most one vocabulary entry matches an identifier, the result is the
\* same when PRODUCT_PREFIXES is listed in the opposite order, and the copies
\* of the classifier in app.js (v2.2, v2.3) return what the v4.1 copy returns.
C18_ClassifierIsAFunction ==
  (fnTask = "classify" /\ fnRes.done) =>
    /\ Cardinality({ p \in Vocabulary : MatchesEntry(fnArg, p) }) <= 1
    /\ fnRes.product = ClassifyReversed(fnArg)
    /\ fnRes.product22 = fnRes.product
    /\ fnRes.product23 = fnRes.product

\* a bare vocabulary entry that is the prefix of longer entries, classified
\* alike by the three copies
C18_Witness ==
  /\ fnTask = "classify" /\ fnRes.done
  /\ fnArg = STR_tee
  /\ fnRes.product = STR_tee
  /\ fnRes.product22 = STR_tee /\ fnRes.product23 = STR_tee

\* C19: every vocabulary entry is a key of PRODUCT_TO_PLACEMENT, every value
\* of PRODUCT_TO_PLACEMENT is a key of PL, a product that is null or not in
\* the table resolves to "tee", and the key generateImage computes always
\* names an entry of PL.
C19_LookupTotal ==
  /\ \A p \in Vocabulary : \E e \in PRODUCT_TO_PLACEMENT : e[1] = p
  /\ \A e \in PRODUCT_TO_PLACEMENT : e[2] \in DOMAIN PL
  /\ PlacementKey(Null) = "tee"
  /\ \A x \in { STR_black, STR_mystery_widget } :
       (~ \E e \in PRODUCT_TO_PLACEMENT : e[1] = x) /\ PlacementKey(x) = "tee"
  /\ ~PL.tee.r
  /\ (fnTask = "classify" /\ fnRes.done) =>
       /\ fnRes.pk \in DOMAIN PL
       /\ fnRes.product = Null => fnRes.pk = "tee"

\* a classified identifier whose placement key is not the default
C19_Witness ==
  /\ fnTask = "classify" /\ fnRes.done
  /\ fnRes.product \in Vocabulary
  /\ fnRes.pk = "hat" /\ PL[fnRes.pk].r

\* C20 as stated: the target size never exceeds the trimmed design's size.
C20_NeverUpscales ==
  (fnTask = "place" /\ fnRes.done) =>
    (fnRes.tw <= fnArg.dw /\ fnRes.th <= fnArg.dh)

\* C20 amended: the target size does not exceed the trimmed design's size
\* when the design is at least as wide or as high as the box; a design smaller
\* than the box on both axes is scaled up until it touches the box.
C20_UpscalesToBox ==
  (fnTask = "place" /\ fnRes.done) =>
    LET mw == maxW(PL[fnArg.pk])
        mh == maxH(PL[fnArg.pk])
    IN  IF fnArg.dw >= mw \/ fnArg.dh >= mh
          THEN fnRes.tw <= fnArg.dw /\ fnRes.th <= fnArg.dh
          ELSE /\ fnRes.tw >= fnArg.dw /\ fnRes.th >= fnArg.dh
               /\ (fnRes.tw = mw \/ fnRes.th = mh)

\* a design smaller than the box, scaled up to the width of the box
C20_Witness ==
  /\ fnTask = "place" /\ fnRes.done
  /\ fnArg.dw < maxW(PL[fnArg.pk]) /\ fnArg.dh < maxH(PL[fnArg.pk])
  /\ fnRes.tw = maxW(PL[fnArg.pk]) /\ fnRes.tw > fnArg.dw
  /\ fnArg.dw >= 10 /\ fnArg.dh >= 10

\* the files of design/ and output/ that belong to a design number other
\* than n are the same before and after the step
OtherDesignsUntouched(n) ==
  /\ \A g \in DOMAIN design : g # n \o DotPng => design'[g] = design[g]
  /\ \A f \in DOMAIN output : dNum(f) # n => output'[f] = output[f]

\* C21: GET /bust-all/:dNum for n, and the deletions of GET /bust/:file for a
\* file of design number n (here with no other request in flight), leave every
\* design file and every composite of another design number as they were (40
\* against 4001 included).
C21_BustLeavesOtherDesigns ==
  [][ /\ \A n \in BustNums :
           (BustAll(n) /\ \A c \in Conns : Free(c)) => OtherDesignsUntouched(n)
      /\ \A c \in Conns :
           (BustDelete(c) /\ \A d \in Conns \ { c } : Free(d)) =>
             OtherDesignsUntouched(bustDNum(file[c])) ]_vars

\* C22: once a bust has deleted the cached design asset, no generation that
\* was in flight writes a composite built from that asset: a generation
\* (here with no other request in flight) opens its output file only while
\* the design asset it read is still the one in design/.
C22_NoCompositeFromBustedAsset ==
  [][ \A c \in Conns :
        ( /\ gpc[c] = "compose" /\ gpc'[c] = "owrite"
          /\ \A d \in Conns \ { c } : Free(d) ) =>
          /\ exists(design, gFile(file[c]))
          /\ design[gFile(file[c])].ver = comp[c].ver ]_vars

\* C23: a request takes the cache-hit path, and is answered with the output
\* file, only when that file has been written completely, and a composite is
\* prepared only from a design file that has been written completely.
C23_NoHalfWrittenFileServed ==
  [][ \A c \in Conns :
        /\ (hpc'[c] = "hit" /\ hpc[c] # "hit") =>
             output[file'[c]].st = "full"
        /\ (resp'[c] = "output" /\ resp[c] # "output") =>
             output'[file[c]].st = "full"
        /\ (gpc[c] = "read" /\ gpc'[c] = "compose") =>
             design[gFile(file[c])].st = "full" ]_vars

PRODUCT_TO_SIM_KEY ==
  {
    << << "t","e","e" >>, << "t","e","e" >> >>,
    << << "t","e","e","b","a","c","k" >>, << "t","e","e" >> >>,
    << << "h","o","o","d","i","e" >>, << "h","o","o","d","i","e" >> >>,
    << << "h","o","o","d","i","e","b","a","c","k" >>, << "h","o","o","d","i","e" >> >>,
    << << "j","h","a","0","0","9" >>, << "h","o","o","d","i","e" >> >>,
    << << "j","h","a","0","0","9","b","a","c","k" >>, << "h","o","o","d","i","e" >> >>,
    << << "y","t","h","h","o","o","d","i","e" >>, << "h","o","o","d","i","e" >> >>,
    << << "y","t","h","h","o","o","d","i","e","b","a","c","k" >>, << "h","o","o","d","i","e" >> >>,
    << << "t","o","d","d","l","e","r","h","o","o","d","i","e" >>, << "h","o","o","d","i","e" >> >>,
    << << "t","o","d","d","l","e","r","h","o","o","d","i","e","b","a","c","k" >>, << "h","o","o","d","i","e" >> >>,
    << << "c","o","a","c","h" >>, << "c","o","a","c","h" >> >>,
    << << "c","o","a","c","h","b","a","c","k" >>, << "c","o","a","c","h" >> >>,
    << << "w","o","r","k","s","h","i","r","t" >>, << "w","o","r","k","s","h","i","r","t" >> >>,
    << << "w","o","r","k","s","h","i","r","t","b","a","c","k" >>, << "w","o","r","k","s","h","i","r","t" >> >>,
    << << "s","w","e","a","t" >>, << "h","o","o","d","i","e" >> >>,
    << << "s","w","e","a","t","b","a","c","k" >>, << "h","o","o","d","i","e" >> >>,
    << << "y","o","u","t","h","s","w","e","a","t" >>, << "h","o","o","d","i","e" >> >>,
    << << "y","o","u","t","h","s","w","e","a","t","b","a","c","k" >>, << "h","o","o","d","i","e" >> >>,
    << << "t","o","d","d","l","e","r","s","w","e","a","t" >>, << "h","o","o","d","i","e" >> >>,
    << << "t","o","d","d","l","e","r","s","w","e","a","t","b","a","c","k" >>, << "h","o","o","d","i","e" >> >>,
    << << "o","n","e","s","i","e" >>, << "o","n","e","s","i","e" >> >>,
    << << "l","s","t","e","e" >>, << "t","e","e" >> >>,
    << << "l","s","t","e","e","b","a","c","k" >>, << "t","e","e" >> >>,
    << << "l","s","t","e","e","h","o","o","d","i","e" >>, << "h","o","o","d","i","e" >> >>,
    << << "l","s","t","e","e","h","o","o","d","i","e","b","a","c","k" >>, << "h","o","o","d","i","e" >> >>,
    << << "p","e","r","f","o","r","m","a","n","c","e","l","s","t","e","e" >>, << "t","e","e" >> >>,
    << << "p","e","r","f","o","r","m","a","n","c","e","l","s","t","e","e","b","a","c","k" >>, << "t","e","e" >> >>,
    << << "t","a","n","k" >>, << "t","e","e" >> >>,
    << << "t","a","n","k","b","a","c","k" >>, << "t","e","e" >> >>,
    << << "s","l","e","e","v","e","l","e","s","s" >>, << "t","e","e" >> >>,
    << << "s","l","e","e","v","e","l","e","s","s","b","a","c","k" >>, << "t","e","e" >> >>,
    << << "r","a","g","l","a","n" >>, << "t","e","e" >> >>,
    << << "r","a","g","l","a","n","b","a","c","k" >>, << "t","e","e" >> >>,
    << << "r","i","n","g" >>, << "t","e","e" >> >>,
    << << "r","i","n","g","b","a","c","k" >>, << "t","e","e" >> >>,
    << << "n","l","6","7","3","3" >>, << "t","e","e" >> >>,
    << << "n","l","3","9","0","0" >>, << "t","e","e" >> >>,
    << << "n","l","3","9","0","0","b","a","c","k" >>, << "t","e","e" >> >>,
    << << "6","4","v","0","0","l" >>, << "t","e","e" >> >>,
    << << "6","4","v","0","0","l","b","a","c","k" >>, << "t","e","e" >> >>,
    << << "y","o","u","t","h","t","e","e" >>, << "t","e","e" >> >>,
    << << "y","o","u","t","h","t","e","e","b","a","c","k" >>, << "t","e","e" >> >>,
    << << "t","o","d","d","l","e","r","t","e","e" >>, << "t","e","e" >> >>,
    << << "t","o","d","d","l","e","r","t","e","e","b","a","c","k" >>, << "t","e","e" >> >>,
    << << "5","3","0","0" >>, << "t","e","e" >> >>,
    << << "n","l","t","b","t","e","e" >>, << "t","e","e" >> >>,
    << << "t","d","1","0","0","0" >>, << "t","e","e" >> >>,
    << << "l","u","n","c","h","b","o","x" >>, << "l","u","n","c","h","b","o","x" >> >>,
    << << "t","o","t","e" >>, << "t","e","e" >> >>,
    << << "s","p","o","r","t","b","a","g" >>, << "t","e","e" >> >>,
    << << "t","r","u","c","k","e","r" >>, << "h","a","t" >> >>,
    << << "o","t","t","o","w","a","s","h","e","d","6","p" >>, << "h","a","t" >> >>,
    << << "g","5","0","0","0","r","e","a","l" >>, << "t","e","e" >> >>,
    << << "g","5","0","0","0","r","e","a","l","b" >>, << "t","e","e" >> >>,
    << << "g","5","0","0","0","r","e","a","l","c" >>, << "t","e","e" >> >>
  }

\* product ? (PRODUCT_TO_SIM_KEY[product] || null) : null
simKey(product) ==
  IF product = Null THEN Null
  ELSE IF \E e \in PRODUCT_TO_SIM_KEY : e[1] = product
         THEN (CHOOSE e \in PRODUCT_TO_SIM_KEY : e[1] = product)[2]
         ELSE Null

STR_sim_png == << "-","s","i","m",".","p","n","g" >>

\* `${designNumber}-${simKey}-sim.png`
productSimFile(fn) ==
  dNum(fn) \o Hyphen \o simKey(getProductFromTemplate_v22(tplName(fn))) \o STR_sim_png

\* `${designNumber}.png`
genericFile(fn) == dNum(fn) \o DotPng

\* variant of the test that sends tee to the product-specific sim as well
wantsProductSim_teeToo(fn) ==
  simKey(getProductFromTemplate_v22(tplName(fn))) # Null

\* if (simKey && simKey !== "tee")
wantsProductSim(fn) ==
  /\ simKey(getProductFromTemplate_v22(tplName(fn))) # Null
  /\ simKey(getProductFromTemplate_v22(tplName(fn))) # STR_tee

\* requests of the sim variants: every vocabulary entry as a front template,
\* an identifier outside the vocabulary, and identifiers with zero and two
\* internal hyphens; design/ holds any subset of the two candidate files
SimTemplates ==
  { PRODUCT_PREFIXES_v22[i] \o Hyphen \o STR_black : i \in 1..Len(PRODUCT_PREFIXES_v22) }
    \cup { STR_mystery_widget, STR_tee, STR_hoodie_heather_grey }

SimInputs ==
  [ tpl : SimTemplates, num : { STR_4001 }, cached : SUBSET { "sim", "generic" } ]

\* design/ before the request
designDir(a) ==
  (IF "sim" \in a.cached THEN { productSimFile(RequestString(a)) } ELSE {})
    \cup (IF "generic" \in a.cached THEN { genericFile(RequestString(a)) } ELSE {})

InitSim ==
  /\ fnTask = "sim"
  /\ fnArg \in SimInputs
  /\ fnRes = [ done |-> FALSE, pc |-> "start", dir |-> designDir(fnArg),
               tried |-> << >>, fetched |-> << >>, designFile |-> Null,
               composited |-> FALSE, ret |-> "pending" ]
  /\ scenario = { STR_mystery_widget_99 }
  /\ InitHttp

\* generateImage up to its first await: the product is classified and the
\* first candidate is chosen
SimClassify ==
  /\ fnTask = "sim" /\ fnRes.pc = "start"
  /\ fnRes' = [fnRes EXCEPT !.pc =
       IF wantsProductSim(RequestString(fnArg)) THEN "simExists" ELSE "genericExists"]
  /\ UNCHANGED << fnTask, fnArg, httpVars >>

\* tryDownloadDesign: checkIfFileExists(localDesign)
TryDownloadDesignExists ==
  /\ fnTask = "sim" /\ fnRes.pc = "simExists"
  /\ LET f == productSimFile(RequestString(fnArg))
     IN  fnRes' = IF f \in fnRes.dir
           THEN [fnRes EXCEPT !.tried = Append(@, f), !.designFile = f,
                              !.pc = "composite"]
           ELSE [fnRes EXCEPT !.tried = Append(@, f), !.pc = "simFetch"]
  /\ UNCHANGED << fnTask, fnArg, httpVars >>

\* tryDownloadDesign: downloadImage; a throw and a falsy result both leave
\* designFile null
TryDownloadDesignFetch ==
  /\ fnTask = "sim" /\ fnRes.pc = "simFetch"
  /\ LET f == productSimFile(RequestString(fnArg))
     IN  \E threw \in BOOLEAN, len \in FetchSizes, created \in BOOLEAN :
           fnRes' = IF ~threw /\ len >= MinDesignBytes /\ created
             THEN [fnRes EXCEPT !.fetched = Append(@, f), !.dir = @ \cup { f },
                                !.designFile = f, !.pc = "composite"]
             ELSE [fnRes EXCEPT !.fetched = Append(@, f), !.pc = "genericExists"]
  /\ UNCHANGED << fnTask, fnArg, httpVars >>

\* if (!designFile): checkIfFileExists(localGeneric)
GenericExists ==
  /\ fnTask = "sim" /\ fnRes.pc = "genericExists"
  /\ LET g == genericFile(RequestString(fnArg))
     IN  fnRes' = IF g \in fnRes.dir
           THEN [fnRes EXCEPT !.tried = Append(@, g), !.designFile = g,
                              !.pc = "composite"]
           ELSE [fnRes EXCEPT !.tried = Append(@, g), !.pc = "genericFetch"]
  /\ UNCHANGED << fnTask, fnArg, httpVars >>

\* downloadImage(designLink, genericFile): a throw of fetch lands in the catch
\* of generateImage, which returns nothing; a falsy result returns false
GenericFetch ==
  /\ fnTask = "sim" /\ fnRes.pc = "genericFetch"
  /\ LET g == genericFile(RequestString(fnArg))
     IN  \E threw \in BOOLEAN, len \in FetchSizes, created \in BOOLEAN :
           fnRes' = IF threw
             THEN [fnRes EXCEPT !.fetched = Append(@, g), !.pc = "done",
                                !.done = TRUE, !.ret = "undefined"]
             ELSE IF len >= MinDesignBytes /\ created
             THEN [fnRes EXCEPT !.fetched = Append(@, g), !.dir = @ \cup { g },
                                !.designFile = g, !.pc = "composite"]
             ELSE [fnRes EXCEPT !.fetched = Append(@, g), !.pc = "done",
                                !.done = TRUE, !.ret = "false"]
  /\ UNCHANGED << fnTask, fnArg, httpVars >>

\* sharp(localTemplate).composite([{ input: localDesign }]).toFile(output):
\* the image info is returned, or sharp throws into the catch
SimComposite ==
  /\ fnTask = "sim" /\ fnRes.pc = "composite"
  /\ \E ok \in BOOLEAN :
       fnRes' = IF ok
         THEN [fnRes EXCEPT !.pc = "done", !.done = TRUE, !.composited = TRUE,
                            !.ret = "image"]
         ELSE [fnRes EXCEPT !.pc = "done", !.done = TRUE, !.ret = "undefined"]
  /\ UNCHANGED << fnTask, fnArg, httpVars >>

NextSim ==
  \/ SimClassify
  \/ TryDownloadDesignExists
  \/ TryDownloadDesignFetch
  \/ GenericExists
  \/ GenericFetch
  \/ SimComposite

SpecSim == InitSim /\ [][NextSim]_vars

IsPrefixOf(s, t) == Len(s) <= Len(t) /\ \A i \in 1..Len(s) : s[i] = t[i]

\* the order of the design sources and the use made of them, up to the value
\* returned when no source could be obtained
SimSourceOrder(failValues) ==
  fnTask = "sim" =>
    LET rq     == RequestString(fnArg)
        key    == simKey(getProductFromTemplate_v22(tplName(rq)))
        wanted == key # Null /\ key # STR_tee
        s      == dNum(rq) \o Hyphen \o key \o STR_sim_png
        g      == dNum(rq) \o DotPng
    IN  /\ IsPrefixOf(fnRes.tried, IF wanted THEN << s, g >> ELSE << g >>)
        /\ IsPrefixOf(fnRes.fetched, SelectSeq(fnRes.tried, LAMBDA f : f \notin designDir(fnArg)))
        /\ (wanted /\ s \in fnRes.dir /\ fnRes.tried # << >>) =>
             fnRes.designFile = s /\ fnRes.tried = << s >>
        /\ fnRes.designFile = s => wanted /\ s \in fnRes.dir
        /\ fnRes.designFile = g => g \in fnRes.dir /\ (wanted => s \notin fnRes.dir)
        /\ fnRes.designFile \in { Null, s, g }
        /\ fnRes.composited => fnRes.designFile # Null
        /\ (fnRes.done /\ fnRes.designFile = Null) =>
             /\ g \notin fnRes.dir
             /\ fnRes.tried = (IF wanted THEN << s, g >> ELSE << g >>)
             /\ ~fnRes.composited
             /\ fnRes.ret \in failValues
        /\ (fnRes.done /\ fnRes.ret = "image") => fnRes.composited

=============================================================================
